---- MODULE Spec2Model ----
(***************************************************************************)
(* A model of src/Mazegame.py: the maze generator (Maze.generate_maze),    *)
(* the neighbour lookup (Maze.get_neighbors), the player and its combat    *)
(* loop (Player.combat) and the turn loop of play_game.                    *)
(*                                                                         *)
(* Rooms are pairs <<y, x>> with 0-based coordinates as in the source.     *)
(* A door list is a sequence over 0..3 (0 North, 1 South, 2 East, 3 West). *)
(***************************************************************************)
EXTENDS Integers, Sequences, FiniteSets, TLC

\* Largest grid the generator is run on (SpecGen).
MaxWidth == 4
MaxHeight == 4

VARIABLES
    width, height,      \* Maze.width, Maze.height
    cells,              \* Maze.cells: room -> door list
    maze_visited,       \* Maze.visited: room -> BOOLEAN
    stack,              \* the DFS stack of generate_maze
    scan,               \* index y*width+x of the room the densification loops are at
    pending,            \* possible_adds[i..adds-1]: the adds the inner loop still makes
    exit_room,          \* Maze.exit_room
    pc,                 \* position in the program
    health, strength, gold, experience, inventory, position, previous_door,
                        \* the fields of Player
    visited,            \* the set `visited` of play_game
    ended,              \* how the turn loop was left ("running" while it is not)
    report,             \* the line printed after the loop ("" while none is)
    rejected,           \* the prompt whose answer the last step refused with a
                        \* "Please enter ..." line ("" when it refused none)
    monster_health, monster_strength,
                        \* the locals of Player.combat
    monster_start,      \* the monster_health that Player.combat drew
    rounds,             \* iterations of the fight loop begun so far
    result              \* what Player.combat returned ("" while it has not)

mazeVars == <<width, height, cells, maze_visited, stack, scan, pending, exit_room>>
statVars == <<health, strength, gold, experience, inventory>>
playerVars == <<statVars, position, previous_door>>
loopVars == <<visited, ended, report, rejected>>
combatVars == <<monster_health, monster_strength, monster_start, rounds, result>>
vars == <<mazeVars, pc, playerVars, loopVars, combatVars>>

NoRoom == <<-1, -1>>

Min(a, b) == IF a < b THEN a ELSE b
Max(a, b) == IF a > b THEN a ELSE b

Rooms == (0 .. height - 1) \X (0 .. width - 1)

\* dy, dx, dir, opp_dir
directions == << <<-1, 0, 0, 1>>, <<1, 0, 1, 0>>, <<0, 1, 2, 3>>, <<0, -1, 3, 2>> >>

InBounds(ny, nx) == 0 <= ny /\ ny < height /\ 0 <= nx /\ nx < width

Member(d, s) == \E i \in 1 .. Len(s) : s[i] = d

\* Mutant of UnvisitedNeighbors: the visited flag is not tested.
UnvisitedNeighbors_Unchecked(y, x) ==
    LET cand == [i \in 1 .. 4 |->
                    <<y + directions[i][1], x + directions[i][2],
                      directions[i][3], directions[i][4]>>]
        ok(e) == InBounds(e[1], e[2])
    IN  SelectSeq(cand, ok)

\* The entries <<ny, nx, d, opp>> collected by the for loop of the DFS step.
UnvisitedNeighbors(y, x) ==
    LET cand == [i \in 1 .. 4 |->
                    <<y + directions[i][1], x + directions[i][2],
                      directions[i][3], directions[i][4]>>]
        ok(e) == InBounds(e[1], e[2]) /\ ~maze_visited[<<e[1], e[2]>>]
    IN  SelectSeq(cand, ok)

\* Mutant of Carve: the door back from the neighbour is forgotten.
Carve_OneWay(c, y, x, e) == [c EXCEPT ![<<y, x>>] = Append(@, e[3])]

\* cells after appending d to room (y,x) and opp to room (ny,nx).
Carve(c, y, x, e) ==
    LET c1 == [c EXCEPT ![<<y, x>>] = Append(@, e[3])]
    IN  [c1 EXCEPT ![<<e[1], e[2]>>] = Append(@, e[4])]

\* One iteration of `while stack` that finds an unvisited neighbour.
DFSCarve ==
    /\ pc = "dfs"
    /\ stack # <<>>
    /\ LET y == stack[Len(stack)][1]
           x == stack[Len(stack)][2]
           un == UnvisitedNeighbors(y, x)
       IN  /\ un # <<>>
           /\ \E i \in 1 .. Len(un) :
                 /\ cells' = Carve(cells, y, x, un[i])
                 /\ maze_visited' = [maze_visited EXCEPT ![<<un[i][1], un[i][2]>>] = TRUE]
                 /\ stack' = Append(stack, <<un[i][1], un[i][2]>>)
    /\ UNCHANGED <<width, height, scan, pending, exit_room, pc>>
    /\ UNCHANGED <<playerVars, loopVars, combatVars>>

\* Mutant of Popped: the whole stack is dropped at the first dead end.
Popped_Clear(s) == <<>>

\* The stack after the else branch of the DFS step.
Popped(s) == SubSeq(s, 1, Len(s) - 1)

\* One iteration of `while stack` that finds none: pop; the loop ends when the
\* stack is empty and the densification loops begin at room 0.
DFSPop ==
    /\ pc = "dfs"
    /\ stack # <<>>
    /\ UnvisitedNeighbors(stack[Len(stack)][1], stack[Len(stack)][2]) = <<>>
    /\ stack' = Popped(stack)
    /\ pc' = IF stack' = <<>> THEN "densify" ELSE "dfs"
    /\ UNCHANGED <<width, height, cells, maze_visited, scan, pending, exit_room>>
    /\ UNCHANGED <<playerVars, loopVars, combatVars>>

\* Mutant of PossibleAdds: `d not in self.cells[y][x]` is not tested.
PossibleAdds_AnyDirection(y, x) ==
    LET cand == [i \in 1 .. 4 |->
                    <<y + directions[i][1], x + directions[i][2],
                      directions[i][3], directions[i][4]>>]
        ok(e) == InBounds(e[1], e[2])
    IN  SelectSeq(cand, ok)

\* The entries <<ny, nx, d, opp>> collected for room (y,x) by the densification.
PossibleAdds(y, x) ==
    LET cand == [i \in 1 .. 4 |->
                    <<y + directions[i][1], x + directions[i][2],
                      directions[i][3], directions[i][4]>>]
        ok(e) == InBounds(e[1], e[2]) /\ ~Member(e[3], cells[<<y, x>>])
    IN  SelectSeq(cand, ok)

\* Mutant of Adds: the target degree is 1 instead of 2.
Adds_One(current_degree, n) == Min(Max(1 - current_degree, 0), n)

\* adds = min(max(2 - current_degree, 0), len(possible_adds))
Adds(current_degree, n) == Min(Max(2 - current_degree, 0), n)

\* The orders random.shuffle can leave n entries in.
Shuffles(n) == {p \in [1 .. n -> 1 .. n] : \A i, j \in 1 .. n : p[i] = p[j] => i = j}

ScanY == scan \div width
ScanX == scan % width

\* The densification loops reach room `scan`: compute possible_adds, shuffle,
\* and fix the number of adds. A room that adds nothing is passed in the same
\* step.
DensifyRoom ==
    /\ pc = "densify"
    /\ pending = <<>>
    /\ scan < width * height
    /\ LET current_degree == Len(cells[<<ScanY, ScanX>>])
           pa == PossibleAdds(ScanY, ScanX)
           n == Len(pa)
       IN  IF current_degree < 4
           THEN \E p \in Shuffles(n) :
                   LET shuffled == [i \in 1 .. n |-> pa[p[i]]]
                       adds == Adds(current_degree, n)
                   IN  /\ pending' = SubSeq(shuffled, 1, adds)
                       /\ scan' = IF adds = 0 THEN scan + 1 ELSE scan
           ELSE /\ pending' = <<>>
                /\ scan' = scan + 1
    /\ UNCHANGED <<width, height, cells, maze_visited, stack, exit_room, pc>>
    /\ UNCHANGED <<playerVars, loopVars, combatVars>>

\* One iteration of `for i in range(adds)`.
DensifyAdd ==
    /\ pc = "densify"
    /\ pending # <<>>
    /\ cells' = Carve(cells, ScanY, ScanX, Head(pending))
    /\ pending' = Tail(pending)
    /\ scan' = IF pending' = <<>> THEN scan + 1 ELSE scan
    /\ UNCHANGED <<width, height, maze_visited, stack, exit_room, pc>>
    /\ UNCHANGED <<playerVars, loopVars, combatVars>>

\* Mutant of ChooseExit: the draws are random.randint(1, height) and
\* random.randint(1, width).
ChooseExit_OneBased ==
    /\ pc = "densify"
    /\ pending = <<>>
    /\ scan = width * height
    /\ \E ey \in 1 .. height, ex \in 1 .. width : exit_room' = <<ey, ex>>
    /\ pc' = "start"
    /\ UNCHANGED <<width, height, cells, maze_visited, stack, scan, pending>>
    /\ UNCHANGED <<playerVars, loopVars, combatVars>>

\* generate_maze returns; Maze.__init__ draws the exit room.
ChooseExit ==
    /\ pc = "densify"
    /\ pending = <<>>
    /\ scan = width * height
    /\ \E ey \in 0 .. height - 1, ex \in 0 .. width - 1 : exit_room' = <<ey, ex>>
    /\ pc' = "start"
    /\ UNCHANGED <<width, height, cells, maze_visited, stack, scan, pending>>
    /\ UNCHANGED <<playerVars, loopVars, combatVars>>

\* Maze.__init__ up to the first test of `while stack`.
InitMaze(w, h) ==
    /\ width = w
    /\ height = h
    /\ cells = [r \in (0 .. h - 1) \X (0 .. w - 1) |-> <<>>]
    /\ maze_visited = [r \in (0 .. h - 1) \X (0 .. w - 1) |-> r = <<0, 0>>]
    /\ stack = << <<0, 0>> >>
    /\ scan = 0
    /\ pending = <<>>
    /\ exit_room = NoRoom

\* Player.__init__ but for health and strength, and play_game's empty visited
\* set.
InitRest ==
    /\ gold = 0
    /\ experience = 0
    /\ inventory = <<>>
    /\ position = <<0, 0>>
    /\ previous_door = "None"
    /\ visited = {}
    /\ ended = "running"
    /\ report = ""
    /\ rejected = ""

\* Player.__init__, and play_game's empty visited set.
InitPlayer ==
    /\ health = 100
    /\ strength = 10
    /\ InitRest


    /\ experience = 0
    /\ inventory = <<>>
    /\ position = <<0, 0>>
    /\ previous_door = "None"
    /\ visited = {}
    /\ ended = "running"
    /\ report = ""
    /\ rejected = ""

\* No fight has begun.
InitCombat ==
    /\ monster_health = 0
    /\ monster_strength = 0
    /\ monster_start = 0
    /\ rounds = 0
    /\ result = ""

InitGen ==
    /\ \E w \in 1 .. MaxWidth, h \in 1 .. MaxHeight : InitMaze(w, h)
    /\ InitPlayer
    /\ InitCombat
    /\ pc = "dfs"

NextGen == DFSCarve \/ DFSPop \/ DensifyRoom \/ DensifyAdd \/ ChooseExit

SpecGen == InitGen /\ [][NextGen]_vars

(***************************************************************************)
(* Outcome texts. A text is the sequence of its characters, so that the    *)
(* substring tests and the parsing of play_game are computed on the text.  *)
(***************************************************************************)
\* positive_outcomes
positive_outcomes ==
    <<
        <<"Y", "o", "u", " ", "f", "i", "n", "d", " ", "2", "0", " ", "g",
          "o", "l", "d", " ", "p", "i", "e", "c", "e", "s", "!">>,
        <<"Y", "o", "u", "r", " ", "h", "e", "a", "l", "t", "h", " ", "i",
          "s", " ", "r", "e", "s", "t", "o", "r", "e", "d", " ", "b", "y",
          " ", "1", "0", "!">>,
        <<"Y", "o", "u", " ", "g", "a", "i", "n", " ", "a", " ", "h", "e",
          "a", "l", "i", "n", "g", " ", "p", "o", "t", "i", "o", "n", "!">>,
        <<"Y", "o", "u", "r", " ", "s", "t", "r", "e", "n", "g", "t", "h",
          " ", "i", "n", "c", "r", "e", "a", "s", "e", "s", " ", "b", "y",
          " ", "1", "!">>,
        <<"Y", "o", "u", " ", "f", "i", "n", "d", " ", "a", " ", "s", "h",
          "a", "r", "p", " ", "s", "w", "o", "r", "d", "!">>,
        <<"Y", "o", "u", " ", "g", "a", "i", "n", " ", "5", "0", " ", "e",
          "x", "p", "e", "r", "i", "e", "n", "c", "e", " ", "p", "o", "i",
          "n", "t", "s", "!">>,
        <<"Y", "o", "u", " ", "f", "i", "n", "d", " ", "a", " ", "m", "y",
          "s", "t", "e", "r", "i", "o", "u", "s", " ", "k", "e", "y", "!">>
    >>

\* negative_outcomes
negative_outcomes ==
    <<
        <<"I", "t", "'", "s", " ", "t", "r", "a", "p", "p", "e", "d", "!",
          " ", "L", "o", "s", "e", " ", "1", "5", " ", "h", "e", "a", "l",
          "t", "h", ".">>,
        <<"P", "o", "i", "s", "o", "n", "e", "d", "!", " ", "L", "o", "s",
          "e", " ", "1", "0", " ", "h", "e", "a", "l", "t", "h", ".">>,
        <<"C", "u", "r", "s", "e", "d", "!", " ", "L", "o", "s", "e", " ",
          "1", "0", " ", "g", "o", "l", "d", ".">>,
        <<"A", " ", "m", "o", "n", "s", "t", "e", "r", " ", "a", "t", "t",
          "a", "c", "k", "s", "!", " ", "L", "o", "s", "e", " ", "2", "0",
          " ", "h", "e", "a", "l", "t", "h", ".">>
    >>

\* The list random.choice draws the reward text from in Player.combat.
combat_gains ==
    <<
        <<"Y", "o", "u", " ", "g", "a", "i", "n", " ", "3", "0", " ", "g",
          "o", "l", "d", "!">>,
        <<"Y", "o", "u", " ", "g", "a", "i", "n", " ", "1", "0", "0", " ",
          "e", "x", "p", "e", "r", "i", "e", "n", "c", "e", "!">>,
        <<"Y", "o", "u", " ", "f", "i", "n", "d", " ", "a", " ", "p", "o",
          "t", "i", "o", "n", "!">>
    >>

\* The substrings the dispatches test for.
W_gold == <<"g", "o", "l", "d">>

\* Mutant of W_health: the test is for 'heal'.
W_heal == <<"h", "e", "a", "l">>

W_health == <<"h", "e", "a", "l", "t", "h">>
W_potion == <<"p", "o", "t", "i", "o", "n">>
W_strength == <<"s", "t", "r", "e", "n", "g", "t", "h">>
W_sword == <<"s", "w", "o", "r", "d">>
W_experience == <<"e", "x", "p", "e", "r", "i", "e", "n", "c", "e">>
W_key == <<"k", "e", "y">>
W_Lose == <<"L", "o", "s", "e", " ">>
W_space == <<" ">>

\* sub occurs in text at index i.
OccursAt(sub, text, i) ==
    /\ i + Len(sub) - 1 <= Len(text)
    /\ \A k \in 1 .. Len(sub) : text[i + k - 1] = sub[k]

\* Python's `sub in text`.
Contains(sub, text) == \E i \in 1 .. Len(text) : OccursAt(sub, text, i)

\* Index of the first occurrence of sub in text from index `from` on, 0 if none.
FirstAt(sub, text, from) ==
    IF \E i \in from .. Len(text) : OccursAt(sub, text, i)
    THEN CHOOSE i \in from .. Len(text) :
            /\ OccursAt(sub, text, i)
            /\ \A j \in from .. i - 1 : ~OccursAt(sub, text, j)
    ELSE 0

\* Python's text.split(sep)[0]: the text before the first sep.
SplitFirst(text, sep) ==
    LET i == FirstAt(sep, text, 1)
    IN  IF i = 0 THEN text ELSE SubSeq(text, 1, i - 1)

\* Python's text.split(sep)[1]: the text between the first sep and the next.
\* (It raises IndexError when sep does not occur; every text it is applied to
\* holds sep.)
SplitSecond(text, sep) ==
    LET i == FirstAt(sep, text, 1)
        rest == SubSeq(text, i + Len(sep), Len(text))
    IN  SplitFirst(rest, sep)

DigitValue(ch) ==
    CASE ch = "0" -> 0 [] ch = "1" -> 1 [] ch = "2" -> 2 [] ch = "3" -> 3
      [] ch = "4" -> 4 [] ch = "5" -> 5 [] ch = "6" -> 6 [] ch = "7" -> 7
      [] ch = "8" -> 8 [] ch = "9" -> 9

\* Python's int(text) for a text of decimal digits.
RECURSIVE ParseInt(_)
ParseInt(text) ==
    IF text = <<>> THEN 0
    ELSE 10 * ParseInt(SubSeq(text, 1, Len(text) - 1)) + DigitValue(text[Len(text)])

\* The stats of the player as a record, for the dispatches.
Stats(h, s, g, e, inv) ==
    [health |-> h, strength |-> s, gold |-> g, experience |-> e, inventory |-> inv]

\* The branch that play_game's if/elif chain takes for a positive outcome
\* text: the first substring test that holds.
PositiveBranch(outcome) ==
    IF Contains(W_gold, outcome) THEN "gold"
    ELSE IF Contains(W_health, outcome) THEN "health"
    ELSE IF Contains(W_potion, outcome) THEN "potion"
    ELSE IF Contains(W_strength, outcome) THEN "strength"
    ELSE IF Contains(W_sword, outcome) THEN "sword"
    ELSE IF Contains(W_experience, outcome) THEN "experience"
    ELSE IF Contains(W_key, outcome) THEN "key"
    ELSE "none"

\* The branch taken for each text of positive_outcomes.
positive_branches ==
    [i \in 1 .. Len(positive_outcomes) |-> PositiveBranch(positive_outcomes[i])]

\* The body of the branch b of the chain over a positive outcome.
PositiveEffect(b, st) ==
    CASE b = "gold" -> [st EXCEPT !.gold = @ + 20]
      [] b = "health" -> [st EXCEPT !.health = @ + 10]
      [] b = "potion" -> [st EXCEPT !.inventory = Append(@, "Healing Potion")]
      [] b = "strength" -> [st EXCEPT !.strength = @ + 1]
      [] b = "sword" -> [st EXCEPT !.inventory = Append(@, "Sword"), !.strength = @ + 2]
      [] b = "experience" -> [st EXCEPT !.experience = @ + 50]
      [] b = "key" -> [st EXCEPT !.inventory = Append(@, "Key")]
      [] OTHER -> st

\* The effect of drawing positive_outcomes[i].
ApplyPositive(i, st) == PositiveEffect(positive_branches[i], st)

\* The branch that play_game's if/elif chain takes for a negative outcome
\* text, with the loss that the health branch parses from the text.
NegativeBranch(outcome) ==
    IF Contains(W_health, outcome)
    THEN [branch |-> "health",
          loss |-> ParseInt(SplitFirst(SplitSecond(outcome, W_Lose), W_space))]
    ELSE IF Contains(W_gold, outcome) THEN [branch |-> "gold", loss |-> 0]
    ELSE [branch |-> "none", loss |-> 0]

\* The branch taken for each text of negative_outcomes.
negative_branches ==
    [i \in 1 .. Len(negative_outcomes) |-> NegativeBranch(negative_outcomes[i])]

\* Mutant of NegativeEffect: the gold penalty is player.gold -= 10.
NegativeEffect_NoFloor(b, st) ==
    CASE b.branch = "health" -> [st EXCEPT !.health = @ - b.loss]
      [] b.branch = "gold" -> [st EXCEPT !.gold = @ - 10]
      [] OTHER -> st

\* The body of the branch b of the chain over a negative outcome.
NegativeEffect(b, st) ==
    CASE b.branch = "health" -> [st EXCEPT !.health = @ - b.loss]
      [] b.branch = "gold" -> [st EXCEPT !.gold = Max(0, @ - 10)]
      [] OTHER -> st

\* The effect of drawing negative_outcomes[i].
ApplyNegative(i, st) == NegativeEffect(negative_branches[i], st)

\* The branch that Player.combat's if/elif chain takes for a reward text.
GainBranch(gain) ==
    IF Contains(W_gold, gain) THEN "gold"
    ELSE IF Contains(W_experience, gain) THEN "experience"
    ELSE IF Contains(W_potion, gain) THEN "potion"
    ELSE "none"

\* The branch taken for each reward text.
gain_branches == [i \in 1 .. Len(combat_gains) |-> GainBranch(combat_gains[i])]

\* Mutant of GainEffect: the gold reward is paid together with the experience.
GainEffect_Both(b, st) ==
    CASE b = "gold" -> [st EXCEPT !.gold = @ + 30, !.experience = @ + 100]
      [] b = "experience" -> [st EXCEPT !.experience = @ + 100]
      [] b = "potion" -> [st EXCEPT !.inventory = Append(@, "Healing Potion")]
      [] OTHER -> st

\* The body of the branch b of the chain over a reward.
GainEffect(b, st) ==
    CASE b = "gold" -> [st EXCEPT !.gold = @ + 30]
      [] b = "experience" -> [st EXCEPT !.experience = @ + 100]
      [] b = "potion" -> [st EXCEPT !.inventory = Append(@, "Healing Potion")]
      [] OTHER -> st

\* The effect of drawing combat_gains[i].
ApplyGain(i, st) == GainEffect(gain_branches[i], st)

(***************************************************************************)
(* Player.combat                                                           *)
(***************************************************************************)
\* Mutant of DamageRolls: the draw is random.randint(0, n).
DamageRolls_FromZero(n) == {0, n}

\* The values drawn for random.randint(1, n): both ends of the range.
DamageRolls(n) == {1, n}

\* The values drawn for random.randint(20, 50) and random.randint(5, 15).
MonsterHealths == {20, 50}
MonsterStrengths == {5, 15}

\* Mutant of is_alive: health 0 counts as alive.
is_alive_NonNegative(h) == h >= 0

\* Player.is_alive
is_alive(h) == h > 0

\* monster_health -= damage
Strike(mh, damage) == mh - damage

\* self.health -= damage
Hit(h, damage) == h - damage

CurrentStats == Stats(health, strength, gold, experience, inventory)

SetStats(st) ==
    /\ health' = st.health
    /\ strength' = st.strength
    /\ gold' = st.gold
    /\ experience' = st.experience
    /\ inventory' = st.inventory

\* Player.combat is called: the monster is drawn.
CallCombat ==
    /\ pc = "combat_call"
    /\ \E mh \in MonsterHealths, ms \in MonsterStrengths :
          /\ monster_health' = mh
          /\ monster_start' = mh
          /\ monster_strength' = ms
    /\ rounds' = 0
    /\ pc' = "combat"
    /\ UNCHANGED <<mazeVars, playerVars, loopVars, result>>

\* One iteration of the fight loop: the player strikes; a dead monster ends
\* the fight with a reward, a living one strikes back.
CombatRound ==
    /\ pc = "combat"
    /\ health > 0 /\ monster_health > 0
    /\ rounds' = rounds + 1
    /\ \E damage \in DamageRolls(strength) :
          /\ monster_health' = Strike(monster_health, damage)
          /\ IF monster_health' <= 0
             THEN /\ \E g \in 1 .. Len(combat_gains) :
                        SetStats(ApplyGain(g, CurrentStats))
                  /\ result' = "win"
                  /\ pc' = "returned"
             ELSE /\ \E md \in DamageRolls(monster_strength) :
                        health' = Hit(health, md)
                  /\ UNCHANGED <<strength, gold, experience, inventory, result, pc>>
    /\ UNCHANGED <<mazeVars, position, previous_door, loopVars,
                   monster_strength, monster_start>>

\* The loop test fails: the code after the loop returns.
CombatExit ==
    /\ pc = "combat"
    /\ ~(health > 0 /\ monster_health > 0)
    /\ result' = IF health <= 0 THEN "lose" ELSE "win"
    /\ pc' = "returned"
    /\ UNCHANGED <<mazeVars, playerVars, loopVars,
                   monster_health, monster_strength, monster_start, rounds>>

\* Player.combat from the loop test on, when every draw of the player's damage
\* is pd and every draw of the monster's is md: the health it ends with,
\* what it returns and whether the reward branch was taken.
RECURSIVE Fight(_, _, _, _)
Fight(h, mh, pd, md) ==
    IF h > 0 /\ mh > 0
    THEN IF Strike(mh, pd) <= 0
         THEN [health |-> h, won |-> TRUE, gain |-> TRUE]
         ELSE Fight(Hit(h, md), Strike(mh, pd), pd, md)
    ELSE [health |-> h, won |-> ~(h <= 0), gain |-> FALSE]

\* The player a fight is begun with: a health and a strength the callers of
\* Player.combat can have, and the smallest ones.
FightHealths == {1, 100}
FightStrengths == {1, 10}

InitFight ==
    /\ InitMaze(1, 1)
    /\ InitRest
    /\ InitCombat
    /\ \E h \in FightHealths, s \in FightStrengths :
          /\ health = h
          /\ strength = s
    /\ pc = "combat_call"

NextCombat == CallCombat \/ CombatRound \/ CombatExit

SpecCombat == InitFight /\ [][NextCombat]_vars

(***************************************************************************)
(* The outcome dispatches of play_game on their own: a player who said yes *)
(* to a room's event and survived the death roll draws one positive or one *)
(* negative outcome.                                                       *)
(***************************************************************************)
\* The stats the player comes to the draw with.
DispatchHealths == {5, 100}
DispatchStrengths == {10, 13}
DispatchGolds == {0, 10, 30}
DispatchExperiences == {0, 150}
DispatchInventories == {<<>>, <<"Sword">>}

\* rand < 0.75: positive_outcomes[i] is drawn and dispatched.
PositiveOutcome(i) ==
    /\ pc = "event"
    /\ SetStats(ApplyPositive(i, CurrentStats))
    /\ pc' = "after_event"
    /\ UNCHANGED <<mazeVars, position, previous_door, loopVars, combatVars>>

\* rand < 0.95: negative_outcomes[i] is drawn and dispatched.
NegativeOutcome(i) ==
    /\ pc = "event"
    /\ SetStats(ApplyNegative(i, CurrentStats))
    /\ pc' = "after_event"
    /\ UNCHANGED <<mazeVars, position, previous_door, loopVars, combatVars>>

InitDispatch ==
    /\ InitMaze(1, 1)
    /\ InitCombat
    /\ health \in DispatchHealths
    /\ strength \in DispatchStrengths
    /\ gold \in DispatchGolds
    /\ experience \in DispatchExperiences
    /\ inventory \in DispatchInventories
    /\ position = <<0, 0>>
    /\ previous_door = "None"
    /\ visited = {<<0, 0>>}
    /\ ended = "running"
    /\ report = ""
    /\ rejected = ""
    /\ pc = "event"

NextDispatch ==
    \/ \E i \in 1 .. Len(positive_outcomes) : PositiveOutcome(i)
    \/ \E i \in 1 .. Len(negative_outcomes) : NegativeOutcome(i)

SpecDispatch == InitDispatch /\ [][NextDispatch]_vars

\* Mutant of NeighborEntry: the North test is y-1 > 0.
NeighborEntry_NoTopRow(y, x, d) ==
    IF d = 0 /\ y - 1 > 0 THEN << <<"North", y - 1, x>> >>
    ELSE IF d = 1 /\ y + 1 < height THEN << <<"South", y + 1, x>> >>
    ELSE IF d = 2 /\ x + 1 < width THEN << <<"East", y, x + 1>> >>
    ELSE IF d = 3 /\ x - 1 >= 0 THEN << <<"West", y, x - 1>> >>
    ELSE <<>>

\* Mutant of NeighborEntry: the South door is listed under the name North.
NeighborEntry_Mislabelled(y, x, d) ==
    IF d = 0 /\ y - 1 >= 0 THEN << <<"North", y - 1, x>> >>
    ELSE IF d = 1 /\ y + 1 < height THEN << <<"North", y + 1, x>> >>
    ELSE IF d = 2 /\ x + 1 < width THEN << <<"East", y, x + 1>> >>
    ELSE IF d = 3 /\ x - 1 >= 0 THEN << <<"West", y, x - 1>> >>
    ELSE <<>>

\* Maze.get_neighbors: what one entry d of the door list of room (y,x) appends.
NeighborEntry(y, x, d) ==
    IF d = 0 /\ y - 1 >= 0 THEN << <<"North", y - 1, x>> >>
    ELSE IF d = 1 /\ y + 1 < height THEN << <<"South", y + 1, x>> >>
    ELSE IF d = 2 /\ x + 1 < width THEN << <<"East", y, x + 1>> >>
    ELSE IF d = 3 /\ x - 1 >= 0 THEN << <<"West", y, x - 1>> >>
    ELSE <<>>

RECURSIVE NeighborsOf(_, _, _)
NeighborsOf(y, x, ds) ==
    IF ds = <<>> THEN <<>>
    ELSE NeighborEntry(y, x, Head(ds)) \o NeighborsOf(y, x, Tail(ds))

\* Maze.get_neighbors(y, x): the entries <<name, ny, nx>> in door-list order.
get_neighbors(y, x) == NeighborsOf(y, x, cells[<<y, x>>])

(***************************************************************************)
(* play_game. The program waits at three prompts; an action is what the    *)
(* program does with one line of input, up to the next prompt or the end.  *)
(***************************************************************************)
\* Largest grid a session is played on (SpecGame).
GameMaxWidth == 2
GameMaxHeight == 2

\* The end of the input stream (input() raises EOFError).
EOF == "<EOF>"

\* The lines of input, as .strip() and .lower() leave them.
Lines == {"yes", "y", "no", "n", "1", "2", "3"}
Inputs == Lines \cup {EOF}

yes_options == {"yes", "y"}

\* Mutant of no_options: every answer that is not a yes is taken for a no.
no_options_Lenient == Lines \ yes_options

no_options == {"no", "n"}

\* The draws of random.randint(1, 100).
DeathRolls == {1, 2}

\* The draws of random.random(), in hundredths.
Rands == {9, 10, 74, 75, 94, 95}

\* The keys of door_options: str(i) for the i-th neighbour.
DoorKey(i) == CASE i = 1 -> "1" [] i = 2 -> "2" [] i = 3 -> "3" [] i = 4 -> "4"

\* Mutant of DoorOption: a choice that is no key selects the first door.
DoorOption_Default(ns, choice) ==
    IF \E i \in 1 .. Len(ns) : DoorKey(i) = choice
    THEN ns[CHOOSE i \in 1 .. Len(ns) : DoorKey(i) = choice]
    ELSE ns[1]

\* The neighbour door_options[choice] of a menu ns, <<>> if choice is no key.
DoorOption(ns, choice) ==
    IF \E i \in 1 .. Len(ns) : DoorKey(i) = choice
    THEN ns[CHOOSE i \in 1 .. Len(ns) : DoorKey(i) = choice]
    ELSE <<>>

\* Where the program is after a step: the prompt it waits at or "done", the
\* visited set, how the loop was left and the line printed after the loop.
At(p, vis) == [pc |-> p, visited |-> vis, ended |-> "running", report |-> ""]

\* Mutant of Leave: every break is recorded as a death.
Leave_AsDeath(h, vis, why) ==
    [pc |-> "done", visited |-> vis, ended |-> "Died",
     report |-> IF is_alive(h) THEN "Congratulations on escaping!"
                ELSE "Game over. You died."]

\* A break out of the turn loop (or its test failing), and the lines after
\* the loop.
Leave(h, vis, why) ==
    [pc |-> "done", visited |-> vis, ended |-> why,
     report |-> IF is_alive(h) THEN "Congratulations on escaping!"
                ELSE "Game over. You died."]

\* The door phase of a turn, up to the door prompt.
DoorPhase(h, pos, vis) ==
    IF get_neighbors(pos[1], pos[2]) = <<>>
    THEN Leave(h, vis, "Stuck")
    ELSE At("door_prompt", vis)

\* Mutant of Turn: the room event is offered before the exit test.
Turn_EventFirst(h, pos, vis) ==
    IF ~is_alive(h) THEN Leave(h, vis, "Died")
    ELSE IF pos \notin vis THEN At("room_prompt", vis \cup {pos})
    ELSE IF pos = exit_room THEN Leave(h, vis, "Escaped")
    ELSE DoorPhase(h, pos, vis)

\* Mutant of Turn: the visited set is not consulted.
Turn_Forgetful(h, pos, vis) ==
    IF ~is_alive(h) THEN Leave(h, vis, "Died")
    ELSE IF pos = exit_room THEN Leave(h, vis, "Escaped")
    ELSE At("room_prompt", vis \cup {pos})

\* A turn from the loop test, up to its first prompt.
Turn(h, pos, vis) ==
    IF ~is_alive(h) THEN Leave(h, vis, "Died")
    ELSE IF pos = exit_room THEN Leave(h, vis, "Escaped")
    ELSE IF pos \notin vis THEN At("room_prompt", vis \cup {pos})
    ELSE DoorPhase(h, pos, vis)

\* The end of the room event: the alive test, then the door phase.
AfterEvent(h, pos, vis) ==
    IF ~is_alive(h) THEN Leave(h, vis, "Died") ELSE DoorPhase(h, pos, vis)

Goto(r) ==
    /\ pc' = r.pc
    /\ visited' = r.visited
    /\ ended' = r.ended
    /\ report' = r.report

\* play_game begins: the player is made and the first turn runs to its prompt.
StartGame ==
    /\ pc = "start"
    /\ Goto(Turn(health, position, visited))
    /\ rejected' = ""
    /\ UNCHANGED <<mazeVars, playerVars, combatVars>>

\* The room's yes/no prompt receives a line or the end of input.
RoomInput(decision) ==
    /\ pc = "room_prompt"
    /\ IF decision = EOF
       THEN /\ Goto(Leave(health, visited, "InputClosed"))
            /\ UNCHANGED statVars
       ELSE IF decision \notin yes_options \cup no_options
       THEN /\ Goto(Turn(health, position, visited))
            /\ UNCHANGED statVars
       ELSE IF decision \in yes_options
       THEN \E roll \in DeathRolls :
               IF roll = 1
               THEN /\ health' = 0
                    /\ UNCHANGED <<strength, gold, experience, inventory>>
                    /\ Goto(Leave(0, visited, "Died"))
               ELSE \E rand \in Rands :
                       IF rand < 10
                       THEN /\ Goto(At("fight_prompt", visited))
                            /\ UNCHANGED statVars
                       ELSE IF rand < 75
                       THEN \E i \in 1 .. Len(positive_outcomes) :
                               LET st == ApplyPositive(i, CurrentStats)
                               IN  /\ SetStats(st)
                                   /\ Goto(AfterEvent(st.health, position, visited))
                       ELSE IF rand < 95
                       THEN \E i \in 1 .. Len(negative_outcomes) :
                               LET st == ApplyNegative(i, CurrentStats)
                               IN  /\ SetStats(st)
                                   /\ Goto(AfterEvent(st.health, position, visited))
                       ELSE /\ Goto(AfterEvent(health, position, visited))
                            /\ UNCHANGED statVars
       ELSE /\ Goto(DoorPhase(health, position, visited))
            /\ UNCHANGED statVars
    /\ rejected' = IF decision \in yes_options \cup no_options \cup {EOF}
                   THEN "" ELSE "room"
    /\ UNCHANGED <<mazeVars, position, previous_door, combatVars>>

\* The monsters <<monster_health, monster_strength>> drawn in a session: the
\* weakest and the strongest.
SessionMonsters == {<<20, 5>>, <<50, 15>>}

\* The damage <<player's, monster's>> drawn in a fight of a session, dealt in
\* every round: the player's luckiest draws, the largest ones of both sides and
\* the player's unluckiest.
SessionLuck(s, ms) == {<<s, 1>>, <<s, ms>>, <<1, ms>>}

\* The fight prompt of a combat encounter receives a line or the end of
\* input. A fight is Player.combat as a whole.
FightInput(fight_dec) ==
    /\ pc = "fight_prompt"
    /\ IF fight_dec = EOF
       THEN /\ Goto(Leave(health, visited, "InputClosed"))
            /\ UNCHANGED statVars
       ELSE IF fight_dec \notin yes_options \cup no_options
       THEN /\ Goto(Turn(health, position, visited))
            /\ UNCHANGED statVars
       ELSE IF fight_dec \in yes_options
       THEN \E m \in SessionMonsters :
            \E luck \in SessionLuck(strength, m[2]) :
            \E g \in 1 .. Len(combat_gains) :
               LET f == Fight(health, m[1], luck[1], luck[2])
                   fought == [CurrentStats EXCEPT !.health = f.health]
                   st == IF f.gain THEN ApplyGain(g, fought) ELSE fought
               IN  /\ SetStats(st)
                   /\ IF ~f.won
                      THEN Goto(Leave(st.health, visited, "Died"))
                      ELSE Goto(AfterEvent(st.health, position, visited))
       ELSE /\ health' = health - 10
            /\ UNCHANGED <<strength, gold, experience, inventory>>
            /\ Goto(AfterEvent(health', position, visited))
    /\ rejected' = IF fight_dec \in yes_options \cup no_options \cup {EOF}
                   THEN "" ELSE "fight"
    /\ UNCHANGED <<mazeVars, position, previous_door, combatVars>>

\* The door prompt receives a line or the end of input.
DoorInput(choice) ==
    /\ pc = "door_prompt"
    /\ LET door == DoorOption(get_neighbors(position[1], position[2]), choice)
       IN  IF choice = EOF
           THEN /\ Goto(Leave(health, visited, "InputClosed"))
                /\ rejected' = ""
                /\ UNCHANGED playerVars
           ELSE IF door = <<>>
           THEN /\ Goto(Turn(health, position, visited))
                /\ rejected' = "door"
                /\ UNCHANGED playerVars
           ELSE \E roll \in DeathRolls :
                   /\ rejected' = ""
                   /\ IF roll = 1
                      THEN /\ health' = 0
                           /\ Goto(Leave(0, visited, "Died"))
                           /\ UNCHANGED <<strength, gold, experience, inventory,
                                          position, previous_door>>
                      ELSE /\ previous_door' = door[1]
                           /\ position' = <<door[2], door[3]>>
                           /\ Goto(Turn(health, position', visited))
                           /\ UNCHANGED statVars
    /\ UNCHANGED <<mazeVars, combatVars>>

InitGame ==
    /\ \E w \in 1 .. GameMaxWidth, h \in 1 .. GameMaxHeight : InitMaze(w, h)
    /\ InitPlayer
    /\ InitCombat
    /\ pc = "dfs"

NextGame ==
    \/ NextGen
    \/ StartGame
    \/ \E line \in Inputs : RoomInput(line)
    \/ \E line \in Inputs : FightInput(line)
    \/ \E line \in Inputs : DoorInput(line)

SpecGame == InitGame /\ [][NextGame]_vars

\* generate_maze has returned.
GenDone == pc \notin {"dfs", "densify"}

(***************************************************************************)
(* The door graph                                                          *)
(***************************************************************************)
\* The rooms one door away from room r.
DoorStep(r) ==
    LET ns == get_neighbors(r[1], r[2])
    IN  {<<ns[i][2], ns[i][3]>> : i \in 1 .. Len(ns)}

RECURSIVE ReachFrom(_)
ReachFrom(S) ==
    LET T == S \cup UNION {DoorStep(r) : r \in S}
    IN  IF T = S THEN S ELSE ReachFrom(T)

\* Number of entries of all door lists.
RECURSIVE SumDoors(_)
SumDoors(S) ==
    IF S = {} THEN 0
    ELSE LET r == CHOOSE r \in S : TRUE
         IN  Len(cells[r]) + SumDoors(S \ {r})

Opp(d) == CASE d = 0 -> 1 [] d = 1 -> 0 [] d = 2 -> 3 [] d = 3 -> 2

\* The room a door in direction d of room r points at.
Toward(r, d) ==
    CASE d = 0 -> <<r[1] - 1, r[2]>>
      [] d = 1 -> <<r[1] + 1, r[2]>>
      [] d = 2 -> <<r[1], r[2] + 1>>
      [] d = 3 -> <<r[1], r[2] - 1>>

\* C1: in a finished maze of size at least 2x2 every room is reachable from
\* room (0,0) by following doors.
C1_Connected ==
    (GenDone /\ width >= 2 /\ height >= 2) => ReachFrom({<<0, 0>>}) = Rooms

\* A finished maze of at least 3x3 rooms to which the densification added doors.
C1_Witness ==
    /\ GenDone /\ width >= 3 /\ height >= 3
    /\ SumDoors(Rooms) > 2 * (width * height - 1)

\* C2: in a finished maze of size at least 2x2 every room has between 2 and
\* 4 entries in its door list.
C2_DoorCount ==
    (GenDone /\ width >= 2 /\ height >= 2) =>
        \A r \in Rooms : Len(cells[r]) >= 2 /\ Len(cells[r]) <= 4

\* A finished maze with a room of exactly 2 doors and a room of 4 doors.
C2_Witness ==
    /\ GenDone /\ width >= 2 /\ height >= 2
    /\ \E r \in Rooms : Len(cells[r]) = 2
    /\ \E r \in Rooms : Len(cells[r]) = 4

\* C3: in every state of the generation and in the finished maze, room A has
\* a door in direction d exactly when the room B that d points at is in the
\* grid and has the opposite door back to A.
C3_Symmetric ==
    \A r \in Rooms : \A d \in 0 .. 3 :
        Member(d, cells[r]) <=>
            (Toward(r, d) \in Rooms /\ Member(Opp(d), cells[Toward(r, d)]))

\* The densification has just carved a door and has another one to carve.
C3_Witness ==
    /\ pc = "densify" /\ pending # <<>>
    /\ SumDoors(Rooms) > 2 * (width * height - 1)

\* The names of the directions present in a door list, in the priority order
\* North, South, East, West.
PriorityNames(ds) ==
    LET names == <<"North", "South", "East", "West">>
        present(i) == Member(i - 1, ds)
        idx == SelectSeq(<<1, 2, 3, 4>>, present)
    IN  [i \in 1 .. Len(idx) |-> names[idx[i]]]

NamesOf(ns) == [i \in 1 .. Len(ns) |-> ns[i][1]]

\* C4: for every room of a finished maze get_neighbors lists the neighbours in
\* the priority order North, South, East, West, whatever the carving order.
C4_PriorityOrder ==
    GenDone =>
        \A r \in Rooms :
            NamesOf(get_neighbors(r[1], r[2])) = PriorityNames(cells[r])

(***************************************************************************)
(* The session                                                             *)
(***************************************************************************)
\* play_game's turn loop has begun.
InSession == pc \in {"room_prompt", "fight_prompt", "door_prompt", "done"}

\* C5: a malformed answer to a room's yes/no prompt makes the engine ask the
\* same room's yes/no question again, before any door selection, with the
\* player and the visited set as they were.
C5_RoomReprompt ==
    [][\A l \in Lines :
          (l \notin yes_options \cup no_options /\ RoomInput(l)) =>
              (pc' = "room_prompt" /\ UNCHANGED <<playerVars, visited>>)]_vars

\* choice is none of the numbers listed in the door menu of the player's room.
NotListed(choice) ==
    \A i \in 1 .. Len(get_neighbors(position[1], position[2])) : DoorKey(i) # choice

\* C6: a door selection that is not a listed number does not end the session,
\* is followed by the door prompt of the same room, and leaves health,
\* strength, gold, experience, inventory, position, previous door and the
\* visited set unchanged.
C6_DoorRepromptFrame ==
    [][(pc = "door_prompt" /\ \E l \in Lines : NotListed(l) /\ DoorInput(l)) =>
          /\ pc' = "door_prompt"
          /\ ended' = "running"
          /\ UNCHANGED <<playerVars, visited>>]_vars

\* A door selection has just been refused, in a session that has moved
\* through a door and holds an item.
C6_Witness ==
    /\ rejected = "door" /\ pc = "door_prompt"
    /\ previous_door # "None"
    /\ inventory # <<>>

\* C7: once the player's health is at or below 0 the session has ended, it
\* ended as Died, and the line printed is "Game over. You died.".
C7_DeadIsDied ==
    (InSession /\ health <= 0) =>
        /\ pc = "done"
        /\ ended = "Died"
        /\ report = "Game over. You died."

\* A session that ended with health exactly 0 after three rooms were entered.
C7_Witness ==
    /\ pc = "done" /\ health = 0
    /\ ended = "Died"
    /\ Cardinality(visited) = 3

\* C8: the line "Congratulations on escaping!" is printed only by a session
\* that ended on the exit room, never by one that ended Stuck or InputClosed.
C8_ReportMatches ==
    (pc = "done" /\ report = "Congratulations on escaping!") => ended = "Escaped"

\* C9: a player standing on the exit room has escaped: the session ended in
\* the turn that began there, as Escaped, with the player alive, and the exit
\* room's event was never offered.
C9_ExitEndsTurn ==
    (InSession /\ position = exit_room) =>
        /\ pc = "done"
        /\ ended = "Escaped"
        /\ report = "Congratulations on escaping!"
        /\ health > 0
        /\ exit_room \notin visited

\* The player reached the exit room through a door after finding gold.
C9_Witness ==
    /\ pc = "done" /\ position = exit_room
    /\ previous_door # "None"
    /\ gold > 0

\* C10: the fight loop runs at most as many rounds as the health the monster
\* began with, which is at most 50: each round lowers the monster's health by
\* at least 1, a state in the loop always has a next step, and Player.combat
\* returns win or lose.
C10_CombatBounded ==
    (pc \in {"combat", "returned"}) =>
        /\ rounds + Max(monster_health, 0) <= monster_start
        /\ monster_start <= 50
        /\ pc = "combat" => ENABLED (CombatRound \/ CombatExit)
        /\ pc = "returned" => result \in {"win", "lose"}

\* A fight won in its fiftieth round.
C10_Witness ==
    /\ pc = "returned" /\ result = "win"
    /\ rounds = 50

\* C11: when Player.combat ends with the monster's health at or below 0 it
\* returns a win and applies exactly one of three rewards (gold +30, or
\* experience +100, or one "Healing Potion" appended to the inventory), the
\* other two and the strength staying as they were, and the monster does not
\* strike in that round: the player's health is as before the killing blow.
C11_WinReward ==
    [][(pc = "combat" /\ pc' = "returned" /\ monster_health' <= 0) =>
          /\ result' = "win"
          /\ health' = health
          /\ strength' = strength
          /\ \/ /\ gold' = gold + 30
                /\ experience' = experience
                /\ inventory' = inventory
             \/ /\ gold' = gold
                /\ experience' = experience + 100
                /\ inventory' = inventory
             \/ /\ gold' = gold
                /\ experience' = experience
                /\ inventory' = Append(inventory, "Healing Potion")]_vars

\* A fight won with the potion as reward after the monster struck in earlier
\* rounds.
C11_Witness ==
    /\ pc = "returned" /\ result = "win"
    /\ monster_health <= 0
    /\ inventory = <<"Healing Potion">>
    /\ health < 100 /\ health > 1

\* The effect of the category of the i-th positive outcome text: 20 gold,
\* +10 health, a potion, +1 strength, a sword with +2 strength, +50 experience,
\* a key.
PositiveCategory(i, st) ==
    CASE i = 1 -> [st EXCEPT !.gold = @ + 20]
      [] i = 2 -> [st EXCEPT !.health = @ + 10]
      [] i = 3 -> [st EXCEPT !.inventory = Append(@, "Healing Potion")]
      [] i = 4 -> [st EXCEPT !.strength = @ + 1]
      [] i = 5 -> [st EXCEPT !.inventory = Append(@, "Sword"), !.strength = @ + 2]
      [] i = 6 -> [st EXCEPT !.experience = @ + 50]
      [] i = 7 -> [st EXCEPT !.inventory = Append(@, "Key")]

\* The effect of the category of the i-th negative outcome text: -15 health,
\* -10 health, -10 gold floored at 0, -20 health.
NegativeCategory(i, st) ==
    CASE i = 1 -> [st EXCEPT !.health = @ - 15]
      [] i = 2 -> [st EXCEPT !.health = @ - 10]
      [] i = 3 -> [st EXCEPT !.gold = IF @ - 10 < 0 THEN 0 ELSE @ - 10]
      [] i = 4 -> [st EXCEPT !.health = @ - 20]

\* C12: for each of the 7 positive and each of the 4 negative outcome texts
\* the substring dispatch applies exactly the one effect of the text's
\* category and changes no other stat of the player.
C12_OneEffect ==
    [][/\ \A i \in 1 .. 7 :
              PositiveOutcome(i) =>
                  /\ CurrentStats' = PositiveCategory(i, CurrentStats)
                  /\ UNCHANGED <<position, previous_door>>
       /\ \A i \in 1 .. 4 :
              NegativeOutcome(i) =>
                  /\ CurrentStats' = NegativeCategory(i, CurrentStats)
                  /\ UNCHANGED <<position, previous_door>>]_vars

\* The sword was found by a player who held one: a second sword and 2 more
\* strength.
C12_Witness ==
    /\ pc = "after_event"
    /\ inventory = <<"Sword", "Sword">>
    /\ strength = 15

\* C13: the end of input at any of the three prompts (room yes/no, fight
\* yes/no, door number) ends the session as InputClosed, and that step
\* changes none of health, strength, gold, experience, inventory, position.
C13_EOFCloses ==
    [][(RoomInput(EOF) \/ FightInput(EOF) \/ DoorInput(EOF)) =>
          /\ pc' = "done"
          /\ ended' = "InputClosed"
          /\ UNCHANGED <<statVars, position>>]_vars

\* The input ended on a player who had moved through a door and held an item.
C13_Witness ==
    /\ pc = "done" /\ ended = "InputClosed"
    /\ previous_door # "None"
    /\ inventory # <<>>

\* C14: over a session each position has its room description and yes/no
\* event offered at most once, on the first turn spent there: a step that
\* ends at a room prompt is for a position that was not in the visited set and
\* adds it, and nothing else changes the visited set. The door menu is offered
\* again on a revisit: a move into a visited room other than the exit ends at
\* the door prompt.
C14_OfferedOnce ==
    [][/\ pc' = "room_prompt" =>
              /\ position' \notin visited
              /\ visited' = visited \cup {position'}
       /\ pc' # "room_prompt" => visited' = visited
       /\ (pc = "door_prompt" /\ position' # position) =>
              pc' = IF position' = exit_room THEN "done"
                    ELSE IF position' \in visited THEN "door_prompt"
                    ELSE "room_prompt"]_vars

\* The player is back in the start room and is offered its doors again.
C14_Witness ==
    /\ pc = "door_prompt"
    /\ position = <<0, 0>>
    /\ previous_door # "None"
    /\ Cardinality(visited) >= 2

\* C15: in a maze of at least two rooms the session never ends as Stuck:
\* get_neighbors of every room of the finished maze is not empty, whatever
\* the inputs and the draws.
C15_NeverStuck ==
    (width * height >= 2) =>
        /\ ended # "Stuck"
        /\ GenDone => \A r \in Rooms : get_neighbors(r[1], r[2]) # <<>>

\* The door menu of a room with a single door, the fewest a maze of two
\* rooms or more has.
C15_Witness ==
    /\ pc = "door_prompt"
    /\ width * height >= 2
    /\ Len(get_neighbors(position[1], position[2])) = 1

\* C16: on a 1x1 grid the generation does not stop before it has returned
\* and leaves the single room with 0 doors, and the session ends in its first
\* turn without waiting at any prompt: as Escaped if the exit is the start
\* room, as Stuck otherwise.
C16_OneRoom ==
    (width = 1 /\ height = 1) =>
        /\ cells[<<0, 0>>] = <<>>
        /\ pc \in {"dfs", "densify"} => ENABLED NextGen
        /\ pc \notin {"room_prompt", "fight_prompt", "door_prompt"}
        /\ pc = "done" =>
              /\ visited = {}
              /\ ended = IF exit_room = position THEN "Escaped" ELSE "Stuck"

\* The session of a 1x1 maze has ended in the start room.
C16_Witness ==
    /\ width = 1 /\ height = 1
    /\ pc = "done" /\ ended = "Escaped"
    /\ position = <<0, 0>> /\ exit_room = <<0, 0>>

\* C17: the player's gold is never negative in any state of a session.
C17_GoldNonNegative == gold >= 0

\* The gold penalty was paid out of 20 gold found before: only a penalty
\* leaves an amount that is not a sum of rewards of 20 and 30.
C17_Witness ==
    /\ InSession
    /\ gold = 10

\* The rooms the DFS has marked visited.
VisitedRooms == {r \in Rooms : maze_visited[r]}

\* C18: while the DFS runs the carved doors form a tree over the rooms marked
\* visited; when it ends (stack empty, before the densification has looked at
\* a room) every room is marked visited and the doors form a spanning tree,
\* width*height - 1 doors each present on both of its sides; from then on
\* the maze has at least that many.
C18_SpanningTree ==
    /\ pc = "dfs" =>
          /\ SumDoors(Rooms) = 2 * (Cardinality(VisitedRooms) - 1)
          /\ ReachFrom({<<0, 0>>}) = VisitedRooms
    /\ (pc = "densify" /\ scan = 0 /\ pending = <<>>) =>
          /\ stack = <<>>
          /\ VisitedRooms = Rooms
          /\ SumDoors(Rooms) = 2 * (width * height - 1)
          /\ ReachFrom({<<0, 0>>}) = Rooms
    /\ pc # "dfs" => SumDoors(Rooms) >= 2 * (width * height - 1)

\* The DFS has just ended on a grid of at least 3x3 rooms.
C18_Witness ==
    /\ pc = "densify" /\ scan = 0 /\ pending = <<>>
    /\ stack = <<>>
    /\ width >= 3 /\ height >= 3

\* C19: in every state of the generation and in the finished maze no
\* direction appears twice in the door list of a room.
C19_NoDuplicateDoor ==
    \A r \in Rooms :
        \A i, j \in 1 .. Len(cells[r]) : cells[r][i] = cells[r][j] => i = j

\* The densification has added doors and a room holds all four directions,
\* each once.
C19_Witness ==
    /\ pc = "densify" /\ scan > 0
    /\ SumDoors(Rooms) > 2 * (width * height - 1)
    /\ \E r \in Rooms : Len(cells[r]) = 4

\* C20: a malformed answer (none of yes, y, no, n) to the fight prompt of a
\* combat encounter applies no combat and no flee penalty, does not end the
\* session, and is followed by the door prompt of the same room, whose event
\* is not offered again: the player's stats, position and previous door and
\* the visited set are as they were, and the room is in the visited set.
C20_FightMalformed ==
    [][(pc = "fight_prompt" /\
        \E l \in Lines \ {"yes", "y", "no", "n"} : FightInput(l)) =>
          /\ pc' = "door_prompt"
          /\ ended' = "running"
          /\ UNCHANGED <<playerVars, visited>>
          /\ position' \in visited']_vars

\* The answer to a fight prompt has just been refused, in a room the player
\* entered through a door, and the door menu is shown.
C20_Witness ==
    /\ rejected = "fight" /\ pc = "door_prompt"
    /\ previous_door # "None"

\* C21: in a session the player's position stays inside the grid; every
\* change of position goes through a door d of the room the player is in to
\* the room next to it in direction d, and d is the direction recorded as
\* the previous door; the selection of a listed door either moves the player
\* with its health as it was, or (the trap) leaves the position and the
\* previous door as they were, sets health to 0 and ends the session.
C21_MovesThroughDoors ==
    [][/\ position' \in Rooms
       /\ position' # position =>
              \E d \in 0 .. 3 :
                 /\ Member(d, cells[position])
                 /\ position' = Toward(position, d)
                 /\ previous_door' = <<"North", "South", "East", "West">>[d + 1]
       /\ (pc = "door_prompt" /\ \E l \in Lines : ~NotListed(l) /\ DoorInput(l)) =>
              \/ /\ position' # position
                 /\ health' = health
              \/ /\ position' = position
                 /\ previous_door' = previous_door
                 /\ health' = 0
                 /\ pc' = "done"
                 /\ ended' = "Died"]_vars

\* The player went South and then East, through two doors, and stands in the
\* far corner of the grid.
C21_Witness ==
    /\ InSession
    /\ position = <<1, 1>>
    /\ previous_door = "East"
    /\ <<1, 0>> \in visited

====
